---- MODULE Spec2Model ----
(***************************************************************************)
(* BrookCalcStandardMMForceFieldKernel: the Brook platform's kernel that   *)
(* computes the bonded and nonbonded forces of the standard MM force field.*)
(*                                                                         *)
(* The kernel object owns two helpers (BrookBonded, BrookNonBonded) and    *)
(* sequences five stream kernels in executeForces.  The helpers and the    *)
(* stream kernels are external to the file; they are modelled by what the  *)
(* call sites hand them and by their documented contracts.  A force value *)
(* is one component of a float3: an integer number of units, rounded to a  *)
(* single-precision significand by every addition.                         *)
(***************************************************************************)
EXTENDS Integers, Sequences, FiniteSets, TLC

VARIABLES
    numberOfAtoms,    \* _numberOfAtoms
    brookBonded,      \* _brookBonded: NULL or the id of a heap object
    brookNonBonded,   \* _brookNonBonded: NULL or the id of a heap object
    heap,             \* every helper object ever allocated, by id
    alive,            \* the kernel object: "constructed", "destroyed" or "crashed"
    call              \* the most recently completed call: arguments, kernel trace, result

vars == <<numberOfAtoms, brookBonded, brookNonBonded, heap, alive, call>>

---------------------------------------------------------------------------
(* Bounds of the model *)

MaxInits   == 2     \* initialize calls made on one kernel object
MaxMult    == 3     \* copies of one bonded term shape in a topology
MaxPos     == 2     \* distinct position configurations
MaxForceIn == 1     \* largest per-atom force value on entry

AtomCounts == {3, 4}                    \* nonbondedParameters.size()
Positions  == 1..MaxPos

---------------------------------------------------------------------------
(* Constants of executeForces *)

NULL     == 0

I_Stream == 0
J_Stream == 1
K_Stream == 2
L_Stream == 3

RoleIds  == {I_Stream, J_Stream, K_Stream, L_Stream}

methodName == "BrookCalcStandardMMForceFieldKernel::executeForces"

\* number of inverse-map streams each gather variant takes for each role
IStreams  == 3
JStreams  == 5
LStreams  == 2
K4Streams == 4
K5Streams == 5

\* partial force streams knbforce_CDLJ4 writes and kMergeFloat3_4_nobranch reads
NbStreams == 4

---------------------------------------------------------------------------
(* Generic helpers *)

RECURSIVE Replicate(_, _)
Replicate(x, n) == IF n <= 0 THEN <<>> ELSE <<x>> \o Replicate(x, n - 1)

Max(S) == CHOOSE x \in S : \A y \in S : y <= x

\* the increasing enumeration of a finite set of integers
RECURSIVE SortedSeq(_)
SortedSeq(S) ==
    IF S = {} THEN <<>>
    ELSE LET m == CHOOSE x \in S : \A y \in S : x <= y
         IN  <<m>> \o SortedSeq(S \ {m})

Atoms(n) == 0..(n - 1)

---------------------------------------------------------------------------
(* float arithmetic of the streams *)

\* bits of the significand of a float
MantissaBits == 24

RECURSIVE Pow2(_)
Pow2(n) == IF n <= 0 THEN 1 ELSE 2 * Pow2(n - 1)

\* the naturals below this are all floats
ExactBelow == Pow2(MantissaBits)

\* the spacing of the floats around a natural number x (1 while x is exact)
RECURSIVE Ulp(_)
Ulp(x) == IF x < ExactBelow THEN 1 ELSE 2 * Ulp(x \div 2)

\* a natural number rounded to the nearest float, ties to the even significand
RoundNat(x) ==
    IF x < ExactBelow THEN x
    ELSE LET s == Ulp(x)
             q == x \div s
             r == x % s
         IN  IF 2 * r > s \/ (2 * r = s /\ q % 2 = 1) THEN (q + 1) * s ELSE q * s

Round(x) == IF x < 0 THEN 0 - RoundNat(0 - x) ELSE RoundNat(x)

\* float addition
FAdd(x, y) == Round(x + y)

\* acc + s[1] + s[2] + ... in float arithmetic, left to right
RECURSIVE Accumulate(_, _)
Accumulate(acc, s) ==
    IF s = <<>> THEN acc ELSE Accumulate(FAdd(acc, Head(s)), Tail(s))

---------------------------------------------------------------------------
(* std::ostream << int, and its inverse *)

Digits == <<"0", "1", "2", "3", "4", "5", "6", "7", "8", "9">>

RECURSIVE NatToString(_)
NatToString(n) ==
    IF n < 10 THEN <<Digits[n + 1]>>
    ELSE NatToString(n \div 10) \o <<Digits[(n % 10) + 1]>>

IntToString(n) == IF n < 0 THEN <<"-">> \o NatToString(0 - n) ELSE NatToString(n)

DigitValue(c) == (CHOOSE i \in 1..10 : Digits[i] = c) - 1

RECURSIVE ParseNat(_)
ParseNat(s) ==
    IF s = <<>> THEN 0
    ELSE 10 * ParseNat(SubSeq(s, 1, Len(s) - 1)) + DigitValue(s[Len(s)])

ParseInt(s) ==
    IF s # <<>> /\ Head(s) = "-" THEN 0 - ParseNat(Tail(s)) ELSE ParseNat(s)

---------------------------------------------------------------------------
(* BrookBonded: bonded terms, lanes and inverse maps (contract of the      *)
(* helper: design sections 3 and 4.1)                                      *)

NoAtom   == 0 - 1
Sentinel == 0 - 1

\* A bonded term names the atom in each role <<I, J, K, L>>.
TermShapes ==
    << <<0, 1, NoAtom, NoAtom>>,     \* bond    I=0 J=1
       <<0, 1, 2, NoAtom>>,          \* angle   I=0 J=1 K=2
       <<1, 0, 2, NoAtom>>,          \* angle   I=1 J=0 K=2
       <<3, 1, 2, 0>> >>             \* torsion I=3 J=1 K=2 L=0

PaddingTerm == <<NoAtom, NoAtom, NoAtom, NoAtom>>

\* lanes are padded to a multiple of this
LanePad == 2

RoleAtom(term, r) == term[r + 1]

RECURSIVE TermsFrom(_, _)
TermsFrom(m, s) ==
    IF s > Len(TermShapes) THEN <<>>
    ELSE Replicate(TermShapes[s], m[s]) \o TermsFrom(m, s + 1)

\* the terms of a topology given as the multiplicity of each shape
Terms(m) == TermsFrom(m, 1)

\* lane assignment: one lane per term, padded up to a multiple of LanePad
Lanes(m) ==
    LET t == Terms(m)
    IN  t \o Replicate(PaddingTerm, (LanePad - (Len(t) % LanePad)) % LanePad)

\* the lanes whose term has atom a in role r, in increasing order
ContributingLanes(m, r, a) ==
    LET l == Lanes(m)
    IN  SortedSeq({ i \in 1..Len(l) : RoleAtom(l[i], r) = a })

\* fan-in of role r: the most lanes any one atom has in that role
FanIn(m, n, r) == Max({ Len(ContributingLanes(m, r, a)) : a \in Atoms(n) })

\* the fan-in each fixed-shape gather assumes of the roles it does not test
SetupAssumption(m, n) ==
    /\ \A s \in 1..Len(TermShapes) :
          m[s] > 0 => \A r \in RoleIds : RoleAtom(TermShapes[s], r) < n
    /\ FanIn(m, n, I_Stream) <= IStreams
    /\ FanIn(m, n, J_Stream) <= JStreams
    /\ FanIn(m, n, L_Stream) <= LStreams

\* the topologies initialize is given, for each atom count
Topologies ==
    [ n \in AtomCounts |->
        { m \in [1..Len(TermShapes) -> 0..MaxMult] : SetupAssumption(m, n) } ]

\* the number of inverse-map streams the helper holds for a role: the fixed
\* shape of the gather that reads the role, or the fan-in when that is larger
SuppliedStreams(m, n, r) ==
    IF r = I_Stream THEN IStreams
    ELSE IF r = J_Stream THEN JStreams
    ELSE IF r = L_Stream THEN LStreams
    ELSE IF FanIn(m, n, r) <= K4Streams THEN K4Streams
    ELSE FanIn(m, n, r)

\* the inverse-map streams 0.. of a role, each giving per atom a lane index
\* or the sentinel
InverseMaps(m, n, r) ==
    [ j \in 0..(SuppliedStreams(m, n, r) - 1) |->
        [ a \in Atoms(n) |->
            LET l == ContributingLanes(m, r, a)
            IN  IF j + 1 <= Len(l) THEN l[j + 1] ELSE Sentinel ] ]

\* BrookBonded::setup: what the helper holds once set up with n atoms and
\* the terms of topology m
SetupData(n, m) ==
    [ laneCount      |-> Len(Lanes(m)),
      streamCount    |-> [ r \in RoleIds |-> FanIn(m, n, r) ],
      inverseStreams |-> [ r \in RoleIds |-> InverseMaps(m, n, r) ] ]

\* SetupData tabulated over the topologies S of n atoms
RECURSIVE SetupByTopology(_, _)
SetupByTopology(n, S) ==
    IF S = {} THEN << >>
    ELSE LET m == CHOOSE x \in S : TRUE
         IN  (m :> SetupData(n, m)) @@ SetupByTopology(n, S \ {m})

\* and over the atom counts N
RECURSIVE SetupByAtoms(_)
SetupByAtoms(N) ==
    IF N = {} THEN << >>
    ELSE LET n == CHOOSE x \in N : TRUE
         IN  (n :> SetupByTopology(n, Topologies[n])) @@ SetupByAtoms(N \ {n})

BrookBondedSetup == SetupByAtoms(AtomCounts)

NotSetUp == [ laneCount |-> 0, streamCount |-> <<>>, inverseStreams |-> <<>> ]

\* BrookBonded::getInverseMapStreamCount( role )
getInverseMapStreamCount(b, r) == b.data.streamCount[r]

\* BrookBonded::getInverseStreamMapsStreams( role )
getInverseStreamMapsStreams(b, r) == b.data.inverseStreams[r]

---------------------------------------------------------------------------
(* Stream kernels.  A kernel call is recorded with the streams it is       *)
(* handed; a kernel's output stream depends on its input streams only.     *)

NoRole == 0 - 1

\* a kernel call that takes no inverse maps
PlainCall(name, in, out) ==
    [ kernel |-> name, roleA |-> NoRole, mapsA |-> <<>>,
      roleB |-> NoRole, mapsB |-> <<>>, in |-> in, out |-> out ]

\* a gather call: role A with its inverse-map stream indices, role B with its
\* own, the force stream read and the force stream written
GatherCall(name, rA, mA, rB, mB, in, out) ==
    [ kernel |-> name, roleA |-> rA, mapsA |-> mA,
      roleB |-> rB, mapsB |-> mB, in |-> in, out |-> out ]

\* the size of the forces at positions p: position set 1 gives forces of a
\* few units, the others forces whose sums exceed the significand
Magnitude(p) == (p - 1) * Pow2(19) + 1

\* value of nonbonded partial force stream k at atom a, positions p
NbPartial(p, k, a) == ((p * (a + 1) + k) % 3) * Magnitude(p)

\* value of the partial force of a lane in role r, positions p
PartialForce(p, r, lane) == (4 * lane + r) * Magnitude(p) + 1

\* knbforce_CDLJ4: writes the NbStreams nonbonded partial force streams
knbforce_CDLJ4(p, n) ==
    [ k \in 0..(NbStreams - 1) |-> [ a \in Atoms(n) |-> NbPartial(p, k, a) ] ]

\* kMergeFloat3_4_nobranch: merges the partial streams into its output stream
kMergeFloat3_4_nobranch(nb, n) ==
    [ a \in Atoms(n) |-> Accumulate(0, [ k \in 1..NbStreams |-> nb[k - 1][a] ]) ]

\* kbonded_CDLJ: writes one partial force stream per role, indexed by lane
kbonded_CDLJ(p, b) ==
    [ r \in RoleIds |-> [ lane \in 1..b.data.laneCount |-> PartialForce(p, r, lane) ] ]

\* what one inverse-map entry resolves to
Resolve(forceStream, entry) == IF entry = Sentinel THEN 0 ELSE forceStream[entry]

\* inverse-map stream j of role r; a stream the helper does not hold reads as g
InverseStream(b, r, j, g) ==
    LET maps == getInverseStreamMapsStreams(b, r)
    IN  IF j \in DOMAIN maps THEN maps[j] ELSE g

\* what the streams (a sequence of indices) of role r gather for atom a
GatherRole(b, bf, r, streams, a, g) ==
    Accumulate(0, [ i \in 1..Len(streams) |->
                      Resolve(bf[r], InverseStream(b, r, streams[i], g)[a]) ])

\* kinvmap_gather3_4, kinvmap_gather3_5, kinvmap_gather5_2: for each atom the
\* sum of role A's entries, then the sum of role B's, added into the incoming force
kinvmap_gather(c, b, bf, inForce, g) ==
    [ a \in Atoms(b.nAtoms) |->
        FAdd(FAdd(inForce[a], GatherRole(b, bf, c.roleA, c.mapsA, a, g)),
             GatherRole(b, bf, c.roleB, c.mapsB, a, g)) ]

---------------------------------------------------------------------------
(* Helper objects on the heap *)

\* new BrookBonded() / new BrookNonBonded(), then setup( n, ... )
NewObject(kind, h, n, m) ==
    [ kind      |-> kind,
      live      |-> TRUE,
      deletes   |-> 0,
      \* objects of the same kind still live when this one was allocated
      liveAtNew |-> Cardinality({ i \in 1..Len(h) : h[i].kind = kind /\ h[i].live }),
      nAtoms    |-> n,
      topo      |-> m,
      data      |-> IF kind = "BrookBonded" THEN BrookBondedSetup[n][m] ELSE NotSetUp ]

NoTopology == <<>>

\* delete ptr: a null pointer is left alone
Delete(h, ptr) ==
    IF ptr = NULL THEN h
    ELSE [ h EXCEPT ![ptr] = [ @ EXCEPT !.live = FALSE, !.deletes = @ + 1,
                                        !.nAtoms = 0, !.topo = NoTopology,
                                        !.data = NotSetUp ] ]

\* the kernel object's fields and heap as one record
Kernel(n, bonded, nonBonded, h) ==
    [ numberOfAtoms |-> n, brookBonded |-> bonded, brookNonBonded |-> nonBonded, heap |-> h ]

\* the constructor: no atoms, no helpers
Constructor == Kernel(0, NULL, NULL, <<>>)

\* initialize without the delete of the previous BrookNonBonded
initialize_Leaky(k, n, m) ==
    LET h1 == IF k.brookBonded # NULL THEN Delete(k.heap, k.brookBonded) ELSE k.heap
        h2 == Append(h1, NewObject("BrookBonded", h1, n, m))
        h4 == Append(h2, NewObject("BrookNonBonded", h2, n, NoTopology))
    IN  Kernel(n, Len(h2), Len(h4), h4)

\* initialize keeping the atom count it had
initialize_StaleCount(k, n, m) ==
    LET h1 == IF k.brookBonded # NULL THEN Delete(k.heap, k.brookBonded) ELSE k.heap
        h2 == Append(h1, NewObject("BrookBonded", h1, n, m))
        h3 == IF k.brookNonBonded # NULL THEN Delete(h2, k.brookNonBonded) ELSE h2
        h4 == Append(h3, NewObject("BrookNonBonded", h3, n, NoTopology))
    IN  Kernel(k.numberOfAtoms, Len(h2), Len(h4), h4)

\* initialize: n == nonbondedParameters.size(), m == the bonded term lists
initialize(k, n, m) ==
    LET h1 == IF k.brookBonded # NULL THEN Delete(k.heap, k.brookBonded) ELSE k.heap
        h2 == Append(h1, NewObject("BrookBonded", h1, n, m))
        h3 == IF k.brookNonBonded # NULL THEN Delete(h2, k.brookNonBonded) ELSE h2
        h4 == Append(h3, NewObject("BrookNonBonded", h3, n, NoTopology))
    IN  Kernel(n, Len(h2), Len(h4), h4)

\* the destructor: delete _brookBonded; delete _brookNonBonded
Destructor(k) ==
    Kernel(k.numberOfAtoms, k.brookBonded, k.brookNonBonded,
           Delete(Delete(k.heap, k.brookBonded), k.brookNonBonded))

---------------------------------------------------------------------------
(* executeForces *)

NoForces == [ a \in {} |-> 0 ]

\* executeEnergy computing something from the positions
executeEnergy_FromPositions(p) == p

\* the kernel calls executeForces can issue
knbforceCall  == PlainCall("knbforce_CDLJ4", "positionStream", "nonbondedForceStreams")
mergeCall     == PlainCall("kMergeFloat3_4_nobranch", "nonbondedForceStreams", "forceStream")
kbondedCall   == PlainCall("kbonded_CDLJ", "positionStream", "bondedForceStreams")
\* the four-stream gather handed no incoming force stream
gather3_4Call_NoInput ==
    GatherCall("kinvmap_gather3_4", I_Stream, <<0, 1, 2>>,
               K_Stream, <<0, 1, 2, 3>>, "none", "forceStream")

gather3_4Call == GatherCall("kinvmap_gather3_4", I_Stream, <<0, 1, 2>>,
                            K_Stream, <<0, 1, 2, 3>>, "forceStream", "forceStream")
gather3_5Call == GatherCall("kinvmap_gather3_5", I_Stream, <<0, 1, 2>>,
                            K_Stream, <<0, 1, 2, 3, 4>>, "forceStream", "forceStream")
\* the (J,L) gather handed the K-role streams in place of the L-role ones
gather5_2Call_KForL ==
    GatherCall("kinvmap_gather5_2", J_Stream, <<0, 1, 2, 3, 4>>,
               K_Stream, <<0, 1>>, "forceStream", "forceStream")

gather5_2Call == GatherCall("kinvmap_gather5_2", J_Stream, <<0, 1, 2, 3, 4>>,
                            L_Stream, <<0, 1>>, "forceStream", "forceStream")

\* the message with the role index printed in place of the count
NotHandledMessage_RoleIndex(count) ==
    <<methodName, "K-maps=">> \o IntToString(K_Stream) \o <<" not handled.">>

\* the message of the exception thrown for an unhandled K-map count
NotHandledMessage(count) ==
    <<methodName, "K-maps=">> \o IntToString(count) \o <<" not handled.">>

\* the streams executeForces works on, before any kernel has run
Entry(forcesIn) ==
    [ forces     |-> forcesIn,      \* forceStream
      nb         |-> <<>>,          \* nonbondedForceStreams
      bf         |-> <<>>,          \* bondedForceStreams
      kernels    |-> <<>>,          \* the kernel calls issued so far
      forceLog   |-> <<>>,          \* forceStream as each of those calls left it
      exception  |-> <<>> ]         \* the message of the exception thrown, if any

\* the stream a kernel call reads its incoming forces from
InForce(c, x, n) == IF c.in = "forceStream" THEN x.forces ELSE [ a \in Atoms(n) |-> 0 ]

\* the streams x with forceStream overwritten by out and call c logged
Written(c, x, out) ==
    [ x EXCEPT !.forces = out, !.kernels = Append(@, c), !.forceLog = Append(@, out) ]

\* the streams x with call c logged, forceStream untouched
Logged(c, x) ==
    [ x EXCEPT !.kernels = Append(@, c), !.forceLog = Append(@, x.forces) ]

\* one kernel call c on the streams x: positions p, helpers b and nb
Invoke(c, x, p, b, nonBonded, g) ==
    IF c.kernel = "knbforce_CDLJ4" THEN
        [ Logged(c, x) EXCEPT !.nb = knbforce_CDLJ4(p, nonBonded.nAtoms) ]
    ELSE IF c.kernel = "kMergeFloat3_4_nobranch" THEN
        Written(c, x, kMergeFloat3_4_nobranch(x.nb, nonBonded.nAtoms))
    ELSE IF c.kernel = "kbonded_CDLJ" THEN
        [ Logged(c, x) EXCEPT !.bf = kbonded_CDLJ(p, b) ]
    ELSE
        Written(c, x, kinvmap_gather(c, b, x.bf, InForce(c, x, b.nAtoms), g))

\* the dispatch with the first test off by one: a count of 4 is not handled
GatherIK_Below4(x, p, b, nonBonded, g) ==
    IF getInverseMapStreamCount(b, K_Stream) < K4Streams THEN
        Invoke(gather3_4Call, x, p, b, nonBonded, g)
    ELSE IF getInverseMapStreamCount(b, K_Stream) = K5Streams THEN
        Invoke(gather3_5Call, x, p, b, nonBonded, g)
    ELSE
        [ x EXCEPT !.exception = NotHandledMessage(getInverseMapStreamCount(b, K_Stream)) ]

\* the dispatch sending a count of 5 to the four-stream variant
GatherIK_FourForFive(x, p, b, nonBonded, g) ==
    IF getInverseMapStreamCount(b, K_Stream) <= K5Streams THEN
        Invoke(gather3_4Call, x, p, b, nonBonded, g)
    ELSE
        [ x EXCEPT !.exception = NotHandledMessage(getInverseMapStreamCount(b, K_Stream)) ]

\* the dispatch falling back to a truncated five-stream gather
GatherIK_Fallback(x, p, b, nonBonded, g) ==
    IF getInverseMapStreamCount(b, K_Stream) <= K4Streams THEN
        Invoke(gather3_4Call, x, p, b, nonBonded, g)
    ELSE
        Invoke(gather3_5Call, x, p, b, nonBonded, g)

\* the (I,K) gather, chosen by the K-role inverse-map stream count
GatherIK(x, p, b, nonBonded, g) ==
    IF getInverseMapStreamCount(b, K_Stream) <= K4Streams THEN
        Invoke(gather3_4Call, x, p, b, nonBonded, g)
    ELSE IF getInverseMapStreamCount(b, K_Stream) = K5Streams THEN
        Invoke(gather3_5Call, x, p, b, nonBonded, g)
    ELSE
        [ x EXCEPT !.exception = NotHandledMessage(getInverseMapStreamCount(b, K_Stream)) ]

\* the (J,L) gather handed as many streams as the helper reports for each role
GatherJL_Counted(x, p, b, nonBonded, g) ==
    Invoke(GatherCall("kinvmap_gather5_2",
                      J_Stream, [ i \in 1..getInverseMapStreamCount(b, J_Stream) |-> i - 1 ],
                      L_Stream, [ i \in 1..getInverseMapStreamCount(b, L_Stream) |-> i - 1 ],
                      "forceStream", "forceStream"),
           x, p, b, nonBonded, g)

\* the (J,L) gather
GatherJL(x, p, b, nonBonded, g) == Invoke(gather5_2Call, x, p, b, nonBonded, g)

\* the nonbonded part: knbforce_CDLJ4, then the merge into forceStream
NonbondedForces(x, p, b, nonBonded, g) ==
    Invoke(mergeCall, Invoke(knbforceCall, x, p, b, nonBonded, g), p, b, nonBonded, g)

\* the bonded term evaluator
BondedForces(x, p, b, nonBonded, g) == Invoke(kbondedCall, x, p, b, nonBonded, g)

\* the two gathers with the (J,L) gather issued first
GatherForces_JLFirst(x, p, b, nonBonded, g) ==
    GatherIK(GatherJL(x, p, b, nonBonded, g), p, b, nonBonded, g)

\* the two gathers in the order of the code; the throw skips the second
GatherForces(x, p, b, nonBonded, g) ==
    LET ik == GatherIK(x, p, b, nonBonded, g)
    IN  IF ik.exception # <<>> THEN ik ELSE GatherJL(ik, p, b, nonBonded, g)

\* executeForces( positions, forces ) on live helpers b and nonBonded
executeForces(p, forcesIn, b, nonBonded, g) ==
    GatherForces(
        BondedForces(
            NonbondedForces(Entry(forcesIn), p, b, nonBonded, g),
            p, b, nonBonded, g),
        p, b, nonBonded, g)

\* executeEnergy( positions )
executeEnergy(p) == 0

---------------------------------------------------------------------------
(* The state machine *)

\* the record of a completed call
CallRecord(op, p, forcesIn, x, outcome, energy) ==
    [ op        |-> op,
      positions |-> p,
      forcesIn  |-> forcesIn,       \* forces on entry
      forcesOut |-> x.forces,       \* forces when the call ended
      kernels   |-> x.kernels,
      forceLog  |-> x.forceLog,
      exception |-> x.exception,
      outcome   |-> outcome,        \* "returned", "threw" or "undefined"
      energy    |-> energy ]

NoCall(op) == CallRecord(op, 0, NoForces, Entry(NoForces), "returned", 0)

\* the forces stream on entry: nothing yet, or what earlier kernels left
ForceInputs(n) == { [ a \in Atoms(n) |-> v * (a + 1) ] : v \in 0..MaxForceIn }

\* what a read of an inverse-map stream the helper does not hold can yield
GarbageStreams(b) ==
    { [ a \in Atoms(b.nAtoms) |-> Sentinel ] } \cup
    { [ a \in Atoms(b.nAtoms) |-> lane ] : lane \in 1..b.data.laneCount }

\* the inverse-map stream reads of the gathers of one call all hit streams
\* the helper holds
ReadsHeld(b, kernels) ==
    \A i \in 1..Len(kernels) :
        /\ kernels[i].roleA # NoRole =>
              \A j \in 1..Len(kernels[i].mapsA) :
                  kernels[i].mapsA[j] \in DOMAIN getInverseStreamMapsStreams(b, kernels[i].roleA)
        /\ kernels[i].roleB # NoRole =>
              \A j \in 1..Len(kernels[i].mapsB) :
                  kernels[i].mapsB[j] \in DOMAIN getInverseStreamMapsStreams(b, kernels[i].roleB)

NoGarbage(b) == [ a \in Atoms(b.nAtoms) |-> Sentinel ]

ThisKernel == Kernel(numberOfAtoms, brookBonded, brookNonBonded, heap)

SetKernel(k) ==
    /\ numberOfAtoms'  = k.numberOfAtoms
    /\ brookBonded'    = k.brookBonded
    /\ brookNonBonded' = k.brookNonBonded
    /\ heap'           = k.heap

Init ==
    /\ numberOfAtoms  = Constructor.numberOfAtoms
    /\ brookBonded    = Constructor.brookBonded
    /\ brookNonBonded = Constructor.brookNonBonded
    /\ heap           = Constructor.heap
    /\ alive          = "constructed"
    /\ call           = NoCall("constructor")

Initialize ==
    /\ alive = "constructed"
    /\ Len(heap) < 2 * MaxInits
    /\ \E n \in AtomCounts : \E m \in Topologies[n] :
          SetKernel(initialize(ThisKernel, n, m))
    /\ call' = NoCall("initialize")
    /\ UNCHANGED alive

ExecuteForces ==
    /\ alive = "constructed"
    /\ brookBonded # NULL /\ brookNonBonded # NULL
    /\ \E p \in Positions : \E f \in ForceInputs(numberOfAtoms) :
          LET b  == heap[brookBonded]
              nb == heap[brookNonBonded]
              x0 == executeForces(p, f, b, nb, NoGarbage(b))
          IN  IF ReadsHeld(b, x0.kernels)
              THEN call' = CallRecord("executeForces", p, f, x0,
                                      IF x0.exception # <<>> THEN "threw" ELSE "returned", 0)
              ELSE \E g \in GarbageStreams(b) :
                      call' = CallRecord("executeForces", p, f,
                                         executeForces(p, f, b, nb, g), "undefined", 0)
    /\ UNCHANGED <<numberOfAtoms, brookBonded, brookNonBonded, heap, alive>>

\* executeForces before any initialize dereferences the null helper pointers:
\* the process dies, or the call comes back with anything in forces
ExecuteForcesNoHelper ==
    /\ alive = "constructed"
    /\ brookBonded = NULL \/ brookNonBonded = NULL
    /\ \E n \in AtomCounts : \E p \in Positions : \E f \in ForceInputs(n) :
       \E out \in ForceInputs(n) : \E dies \in BOOLEAN :
          /\ call' = CallRecord("executeForces", p, f, [ Entry(f) EXCEPT !.forces = out ],
                                "undefined", 0)
          /\ alive' = IF dies THEN "crashed" ELSE alive
    /\ UNCHANGED <<numberOfAtoms, brookBonded, brookNonBonded, heap>>

ExecuteEnergy ==
    /\ alive = "constructed"
    /\ \E p \in Positions :
          call' = CallRecord("executeEnergy", p, NoForces, Entry(NoForces), "returned",
                             executeEnergy(p))
    /\ UNCHANGED <<numberOfAtoms, brookBonded, brookNonBonded, heap, alive>>

Destroy ==
    /\ alive = "constructed"
    /\ SetKernel(Destructor(ThisKernel))
    /\ alive' = "destroyed"
    /\ call' = NoCall("destructor")

Next ==
    \/ Initialize
    \/ ExecuteForces
    \/ ExecuteForcesNoHelper
    \/ ExecuteEnergy
    \/ Destroy

Spec == Init /\ [][Next]_vars

---------------------------------------------------------------------------
(* Vocabulary of the properties *)

\* the last call was an executeForces on live helpers that ran to its end
Ran == call.op = "executeForces" /\ call.outcome \in {"returned", "threw"}

Returned == call.op = "executeForces" /\ call.outcome = "returned"

Threw == call.op = "executeForces" /\ call.outcome = "threw"

\* the helper the call used, and its K-role inverse-map stream count
Bonded == heap[brookBonded]

KCount == getInverseMapStreamCount(Bonded, K_Stream)

KSupported == KCount <= 4 \/ KCount = 5

\* the names of the kernels the call invoked, in order
KernelNames == [ i \in 1..Len(call.kernels) |-> call.kernels[i].kernel ]

\* how often the call invoked the kernel of that name
Invocations(name) == Cardinality({ i \in 1..Len(call.kernels) : call.kernels[i].kernel = name })

\* the one call of that name
TheCall(name) == call.kernels[CHOOSE i \in 1..Len(call.kernels) : call.kernels[i].kernel = name]

\* the lanes the inverse map of role r lists for atom a, each once
ListedLanes(r, a) ==
    LET maps == getInverseStreamMapsStreams(Bonded, r)
    IN  { maps[j][a] : j \in DOMAIN maps } \ {Sentinel}

\* the partial forces of role r those lanes hold, summed lane by lane
ListedSum(r, a) ==
    LET lanes == SortedSeq(ListedLanes(r, a))
    IN  Accumulate(0, [ i \in 1..Len(lanes) |-> PartialForce(call.positions, r, lanes[i]) ])

\* the nonbonded force on atom a computed by the call
NonbondedSum(a) ==
    Accumulate(0, [ k \in 1..NbStreams |-> NbPartial(call.positions, k - 1, a) ])

\* force f with the sums of roles rA and rB of atom a added, as one gather adds them
WithRoles(f, rA, rB, a) == FAdd(FAdd(f, ListedSum(rA, a)), ListedSum(rB, a))

\* forceStream as the i-th kernel of the call left it
ForcesAfter(i) == call.forceLog[i]

---------------------------------------------------------------------------
(* C1 *)

\* C1: executeForces adds to the forces stream and never overwrites it: after a
\* successful call every atom's force is its value on entry plus the nonbonded
\* and the bonded contributions of the call.
C1_ForcesAddedTo ==
    Returned =>
        \A a \in Atoms(numberOfAtoms) :
            call.forcesOut[a] =
                WithRoles(WithRoles(FAdd(call.forcesIn[a], NonbondedSum(a)),
                                    I_Stream, K_Stream, a),
                          J_Stream, L_Stream, a)

---------------------------------------------------------------------------
(* C2 *)

\* the stream indices 0 .. n-1
FirstStreams(n) == [ i \in 1..n |-> i - 1 ]

\* C2: the (I,K) gather variant depends on the K-role stream count alone: a
\* count <= 4 gives exactly one kinvmap_gather3_4 over I streams 0..2 and K
\* streams 0..3 and no kinvmap_gather3_5; a count of 5 gives exactly one
\* kinvmap_gather3_5 over I streams 0..2 and K streams 0..4 and no
\* kinvmap_gather3_4; no call invokes both.
C2_VariantSelection ==
    Ran =>
        /\ KCount <= 4 =>
              /\ Invocations("kinvmap_gather3_4") = 1
              /\ Invocations("kinvmap_gather3_5") = 0
              /\ TheCall("kinvmap_gather3_4").roleA = I_Stream
              /\ TheCall("kinvmap_gather3_4").mapsA = FirstStreams(3)
              /\ TheCall("kinvmap_gather3_4").roleB = K_Stream
              /\ TheCall("kinvmap_gather3_4").mapsB = FirstStreams(4)
        /\ KCount = 5 =>
              /\ Invocations("kinvmap_gather3_5") = 1
              /\ Invocations("kinvmap_gather3_4") = 0
              /\ TheCall("kinvmap_gather3_5").roleA = I_Stream
              /\ TheCall("kinvmap_gather3_5").mapsA = FirstStreams(3)
              /\ TheCall("kinvmap_gather3_5").roleB = K_Stream
              /\ TheCall("kinvmap_gather3_5").mapsB = FirstStreams(5)
              /\ \A a \in Atoms(numberOfAtoms) :
                    ListedLanes(K_Stream, a) \subseteq
                        { getInverseStreamMapsStreams(Bonded, K_Stream)[j][a] :
                            j \in { TheCall("kinvmap_gather3_5").mapsB[i] : i \in 1..5 } }
        /\ ~ (Invocations("kinvmap_gather3_4") > 0 /\ Invocations("kinvmap_gather3_5") > 0)

\* a call on a topology of K-role count 5 that reached its gathers
C2_Witness ==
    Returned /\ KCount = 5 /\ Invocations("kinvmap_gather3_5") = 1

---------------------------------------------------------------------------
(* C3 *)

\* the digits the exception message carries between "K-maps=" and " not handled."
MessageCount == SubSeq(call.exception, 3, Len(call.exception) - 1)

\* C3: with a K-role stream count that is neither <= 4 nor 5 every call throws,
\* the message carries the count, no gather of either pair is invoked and the
\* bonded part adds nothing to forces.
C3_UnhandledCountThrows ==
    (Ran /\ ~ KSupported) =>
        /\ call.outcome = "threw"
        /\ Len(call.exception) >= 4
        /\ call.exception[1] = methodName
        /\ call.exception[2] = "K-maps="
        /\ call.exception[Len(call.exception)] = " not handled."
        /\ ParseInt(MessageCount) = KCount
        /\ Invocations("kinvmap_gather3_4") = 0
        /\ Invocations("kinvmap_gather3_5") = 0
        /\ Invocations("kinvmap_gather5_2") = 0
        /\ KernelNames = <<"knbforce_CDLJ4", "kMergeFloat3_4_nobranch", "kbonded_CDLJ">>
        /\ call.forcesOut = ForcesAfter(3)

\* a call that threw on a count above 6
C3_Witness == Threw /\ KCount > 6

---------------------------------------------------------------------------
(* C4 *)

\* C4 as stated: with a K-role count of 6 the call throws with every entry of
\* forces equal to its value on entry.
C4_ForcesAsOnEntry ==
    (Ran /\ KCount = 6) =>
        /\ call.outcome = "threw"
        /\ call.forcesOut = call.forcesIn

\* C4 as amended: with a K-role count of 6 the call throws before either bonded
\* gather has touched forces: forces holds what the nonbonded merge, the second
\* kernel of the call, wrote into it.
C4_ForcesAsMerged ==
    (Ran /\ KCount = 6) =>
        /\ call.outcome = "threw"
        /\ Len(call.kernels) >= 2
        /\ call.kernels[2].kernel = "kMergeFloat3_4_nobranch"
        /\ call.forcesOut = ForcesAfter(2)

\* a call that threw on a count of 6 with forces not all zero on entry
C4_Witness ==
    Threw /\ KCount = 6 /\ \E a \in Atoms(numberOfAtoms) : call.forcesIn[a] > 0

---------------------------------------------------------------------------
(* C5 *)

\* C5: every successful call invokes, each once and in this order, knbforce_CDLJ4,
\* the nonbonded merge, kbonded_CDLJ, the (I,K) gather and the (J,L) gather.
C5_KernelOrder ==
    Returned =>
        \/ KernelNames = <<"knbforce_CDLJ4", "kMergeFloat3_4_nobranch", "kbonded_CDLJ",
                           "kinvmap_gather3_4", "kinvmap_gather5_2">>
        \/ KernelNames = <<"knbforce_CDLJ4", "kMergeFloat3_4_nobranch", "kbonded_CDLJ",
                           "kinvmap_gather3_5", "kinvmap_gather5_2">>

\* a successful call that took the four-stream variant
C5_Witness ==
    Returned /\ Len(call.kernels) = 5 /\ call.kernels[4].kernel = "kinvmap_gather3_4"

---------------------------------------------------------------------------
(* C6 *)

\* C6: executeEnergy returns zero for every positions argument and in every
\* kernel state, changes no field of the kernel and no helper, and invokes no
\* stream kernel.
C6_EnergyIsZero ==
    [][ call'.op = "executeEnergy" =>
            /\ call'.energy = 0
            /\ call'.kernels = <<>>
            /\ UNCHANGED <<numberOfAtoms, brookBonded, brookNonBonded, heap, alive>> ]_vars

\* executeEnergy called on an initialized kernel with the last position set
C6_Witness ==
    call.op = "executeEnergy" /\ brookBonded # NULL /\ call.positions = MaxPos

---------------------------------------------------------------------------
(* C7 *)

LiveObjects(kind) == { i \in 1..Len(heap) : heap[i].kind = kind /\ heap[i].live }

OwnedBy(ptr) == IF ptr = NULL THEN {} ELSE {ptr}

\* C7: while the kernel exists it owns exactly the helpers of the latest
\* initialize, one of each kind; every earlier helper was released once, and
\* before its replacement was created; the destructor releases the last two;
\* nothing is leaked or released twice.
C7_HelpersReleasedOnce ==
    /\ \A i \in 1..Len(heap) :
          /\ heap[i].liveAtNew = 0
          /\ heap[i].deletes = IF heap[i].live THEN 0 ELSE 1
    /\ alive = "constructed" =>
          /\ LiveObjects("BrookBonded") = OwnedBy(brookBonded)
          /\ LiveObjects("BrookNonBonded") = OwnedBy(brookNonBonded)
          /\ Len(heap) > 0 => brookBonded = Len(heap) - 1 /\ brookNonBonded = Len(heap)
    /\ alive = "destroyed" =>
          LiveObjects("BrookBonded") \cup LiveObjects("BrookNonBonded") = {}

\* a kernel destroyed after a second initialize
C7_Witness == alive = "destroyed" /\ Len(heap) >= 4

---------------------------------------------------------------------------
(* C8 *)

---------------------------------------------------------------------------
(* C9 *)

---------------------------------------------------------------------------
(* C10 *)

\* the streams of the call as kbonded_CDLJ left them
BeforeGathers ==
    BondedForces(
        NonbondedForces(Entry(call.forcesIn), call.positions, Bonded,
                        heap[brookNonBonded], NoGarbage(Bonded)),
        call.positions, Bonded, heap[brookNonBonded], NoGarbage(Bonded))

\* the two gathers in the other order: (J,L) first, then (I,K)
GathersReversed ==
    GatherIK(
        GatherJL(BeforeGathers, call.positions, Bonded, heap[brookNonBonded], NoGarbage(Bonded)),
        call.positions, Bonded, heap[brookNonBonded], NoGarbage(Bonded))

Abs(x) == IF x < 0 THEN 0 - x ELSE x

\* the exact sum of what the two gathers add to atom a and what they find there
ExactTotal(a) ==
    ForcesAfter(3)[a] + ListedSum(I_Stream, a) + ListedSum(K_Stream, a)
                      + ListedSum(J_Stream, a) + ListedSum(L_Stream, a)

---------------------------------------------------------------------------
(* C11 *)

ICount == getInverseMapStreamCount(Bonded, I_Stream)
JCount == getInverseMapStreamCount(Bonded, J_Stream)
LCount == getInverseMapStreamCount(Bonded, L_Stream)

\* C11: the (J,L) gather has one fixed shape: every call whose K-role dispatch
\* does not throw invokes kinvmap_gather5_2 exactly once, over J streams 0..4
\* and L streams 0..1, whatever the J and L counts; and with a supported K
\* count no call fails, whatever the I, J and L counts.
C11_FixedShapeJL ==
    /\ Returned =>
          /\ Invocations("kinvmap_gather5_2") = 1
          /\ TheCall("kinvmap_gather5_2").roleA = J_Stream
          /\ TheCall("kinvmap_gather5_2").mapsA = FirstStreams(JStreams)
          /\ TheCall("kinvmap_gather5_2").roleB = L_Stream
          /\ TheCall("kinvmap_gather5_2").mapsB = FirstStreams(LStreams)
    /\ (Ran /\ KSupported) => Returned

\* a call that returned on a helper whose I, J and L counts all differ from the
\* number of streams the gathers are handed
C11_Witness ==
    /\ Returned
    /\ ICount # IStreams /\ JCount # JStreams /\ LCount # LStreams
    /\ Invocations("kinvmap_gather5_2") = 1

---------------------------------------------------------------------------
(* C12 *)

\* every stream index kernel call c passes for its two roles is below the
\* count the helper reports for the role
IndicesBelowCount(c) ==
    /\ c.roleA # NoRole =>
          \A j \in 1..Len(c.mapsA) : c.mapsA[j] < getInverseMapStreamCount(Bonded, c.roleA)
    /\ c.roleB # NoRole =>
          \A j \in 1..Len(c.mapsB) : c.mapsB[j] < getInverseMapStreamCount(Bonded, c.roleB)

\* C12: in every call that does not throw, each inverse-map stream index handed
\* to a gather is strictly less than the stream count the helper reports for
\* that role.
C12_IndexBelowCount ==
    Returned => \A i \in 1..Len(call.kernels) : IndicesBelowCount(call.kernels[i])

---------------------------------------------------------------------------
(* C13 *)

\* no initialize has returned yet
NeverInitialized == Len(heap) = 0

\* the pointer refers to a live helper of that kind
LiveHelper(ptr, kind) ==
    /\ ptr # NULL
    /\ ptr \in 1..Len(heap)
    /\ heap[ptr].kind = kind
    /\ heap[ptr].live

\* what holds of the kernel between calls, until it is destroyed
HelpersAvailable ==
    alive = "constructed" =>
        /\ NeverInitialized =>
              brookBonded = NULL /\ brookNonBonded = NULL /\ numberOfAtoms = 0
        /\ ~ NeverInitialized =>
              /\ LiveHelper(brookBonded, "BrookBonded")
              /\ LiveHelper(brookNonBonded, "BrookNonBonded")
              \* setup of both helpers was given the size of nonbondedParameters
              /\ numberOfAtoms = heap[brookNonBonded].nAtoms
              /\ numberOfAtoms = heap[brookBonded].nAtoms
              /\ numberOfAtoms \in AtomCounts

\* a step that is an executeForces or an executeEnergy call
ExecuteStep == call'.op \in {"executeForces", "executeEnergy"} /\ call' # call

\* C13: a fresh kernel holds no helper and has atom count 0; after an
\* initialize both helper pointers refer to live objects whenever a call can
\* use them and the atom count is the one the latest initialize was given;
\* executeForces and executeEnergy change neither the pointers, nor the atom
\* count, nor the helpers.
C13_HelperAvailability ==
    /\ [] HelpersAvailable
    /\ [][ ExecuteStep => UNCHANGED <<numberOfAtoms, brookBonded, brookNonBonded, heap>> ]_vars

\* an executeForces that returned on the helpers of a second initialize, given
\* another atom count than the first
C13_Witness ==
    /\ Returned
    /\ Len(heap) >= 4
    /\ LiveHelper(brookBonded, "BrookBonded")
    /\ ~ heap[1].live
    /\ numberOfAtoms = 4

====
